---- MODULE Spec2Model ----
(***************************************************************************)
(* smartconfig: configuration entries (classes whose metaclass is          *)
(* _ConfigEntryMeta) declare default values under a dotted path of the     *)
(* process-wide configuration tree; a loader may write overriding values   *)
(* into the same tree; attribute reads on an entry are looked up in the    *)
(* tree.                                                                   *)
(*                                                                         *)
(* Strings are sequences of one-character strings, so that str.split(".")  *)
(* and str.startswith("_") are computed and not assumed.  The tree of      *)
(* nested dicts is a function from key sequences (the keys leading to a    *)
(* position) to what is stored there: a nested mapping or a value.         *)
(*                                                                         *)
(* smartconfig/_registry.py as shipped defines only the Registry class:    *)
(* get_attribute, unload_defaults and used_paths, which entry.py imports   *)
(* from it, are modelled from the specification's sections 4.1 and 4.4,    *)
(* and so is the external loader's write (section 6).                      *)
(***************************************************************************)
EXTENDS Integers, Sequences, FiniteSets, Bags, TLC

\* ---------------------------------------------------------------- bounds
\* Class objects that exist at the same time (live or awaiting finalization).
NumDecls == 2

\* ------------------------------------------------------------- strings
DOT == "."
UNDERSCORE == "_"

\* The names used as attribute names and as path segments.
StrA == <<"a">>
StrB == <<"b">>
StrX == <<"x">>
StrPrivate == <<"_", "p">>
StrAB == <<"a", ".", "b">>
\* A path with a segment that starts with an underscore, as the name of a
\* private module does.
StrAPrivate == <<"a", ".", "_", "p">>
\* "smartconfig.entry", the module of ConfigEntry itself.
StrBaseModule ==
    <<"s","m","a","r","t","c","o","n","f","i","g",".","e","n","t","r","y">>

\* None, and also the empty string: both are falsy in `path_override or module`.
NoPath == <<>>

\* Attribute values are opaque: two of them tell a default from an override.
Values == {1, 2}
\* cls.__module__ of the classes the model defines.
Modules == {StrA}
\* The `path` metaclass argument.
PathArgs == {NoPath, StrAB}
\* Attribute names of class bodies; StrB is also a path segment.
Names == {StrX, StrB, StrPrivate}
\* The (path, name) pairs the loader writes.
LoaderPaths == {StrA, StrAB}
LoaderNames == {StrX}

\* name.startswith('_')
StartsWithUnderscore(name) == Len(name) > 0 /\ name[1] = UNDERSCORE

\* path.split("."): the maximal runs between the dots, empty runs included.
RECURSIVE Split(_)
Split(s) ==
    IF \A i \in 1..Len(s) : s[i] # DOT
    THEN <<s>>
    ELSE LET i == CHOOSE j \in 1..Len(s) :
                      s[j] = DOT /\ \A k \in 1..(j - 1) : s[k] # DOT
         IN <<SubSeq(s, 1, i - 1)>> \o Split(SubSeq(s, i + 1, Len(s)))

\* ---------------------------------------------------------------- tree
Mapping == [kind |-> "mapping", value |-> 0]
Scalar(v) == [kind |-> "value", value |-> v]
EmptyDict == [k \in {} |-> 0]

Root == <<>>
Has(t, pos) == pos \in DOMAIN t
IsMapping(t, pos) == Has(t, pos) /\ t[pos].kind = "mapping"
IsValue(t, pos) == Has(t, pos) /\ t[pos].kind = "value"
Prefix(segs, i) == SubSeq(segs, 1, i)

\* node.setdefault(key, {}) on the mapping at pos: pos \o <<key>> is created
\* as an empty mapping only when the key is absent.
SetDefault(t, pos) ==
    IF Has(t, pos) THEN t ELSE [q \in DOMAIN t \cup {pos} |->
                                   IF q = pos THEN Mapping ELSE t[q]]

\* What a lookup or a definition reports.
NoError == "none"

VARIABLES
    global_configuration,     \* the tree
    configuration_for_module, \* dotted path -> entry
    used_paths,               \* the paths claimed by entries
    entries,                  \* the bag of class objects not yet finalized
    overrides,                \* tree positions the loader wrote, with the value
    outcome,                  \* the last operation, when a read or a finalization
    torn_down,                \* RedeclareSpec only: the entry last torn down
    threads                   \* ConcurrentSpec only: the definitions under way

vars == <<global_configuration, configuration_for_module, used_paths,
          entries, overrides, outcome, torn_down, threads>>

\* ------------------------------------------------------------ registry
\* get_attribute(path, name): walk the segments, then the name; a missing
\* segment or name is a ConfigurationKeyError.
get_attribute(t, path, name) ==
    LET segs == Split(path)
        pos  == Append(segs, name)
    IN IF /\ \A i \in 1..Len(segs) : IsMapping(t, Prefix(segs, i))
          /\ Has(t, pos)
       THEN [raised |-> NoError, kind |-> t[pos].kind, value |-> t[pos].value]
       ELSE [raised |-> "ConfigurationKeyError", kind |-> "none", value |-> 0]

Resolves(t, path, name) == get_attribute(t, path, name).raised = NoError

\* The keys unload_defaults(path) deletes: the values at the leaf of path
\* that came from an entry's defaults, i.e. that the loader never wrote.
UnloadedKeys(t, ov, path) ==
    LET segs == Split(path)
    IN {pos \in DOMAIN t : /\ Len(pos) = Len(segs) + 1
                           /\ Prefix(pos, Len(segs)) = segs
                           /\ IsValue(t, pos)
                           /\ pos \notin DOMAIN ov}

\* unload_defaults releasing the path only: every value stays.
UnloadTreeKeepingValues(t, ov, path) == t

\* unload_defaults(path) on the tree.
UnloadTree(t, ov, path) ==
    [q \in DOMAIN t \ UnloadedKeys(t, ov, path) |-> t[q]]

\* unload_defaults(path) on the claimed paths.
UnloadPaths(used, path) == used \ {path}

\* ------------------------------------------------------------ entry.py
\* cls.__path = cls.__path_override or cls.__module__
ResolvedPath(path_override, module) ==
    IF path_override # NoPath THEN path_override ELSE module

\* Configuration without the filter: every attribute of the class body.
ConfigurationUnfiltered(dict) == dict

\* {key: value for key, value in cls.__dict__.items() if not key.startswith('_')}
Configuration(dict) ==
    [k \in {n \in DOMAIN dict : ~StartsWithUnderscore(n)} |-> dict[k]]

\* for node_name in path.split("."): current_node = current_node.setdefault(..)
\* A value met where a mapping is needed has no setdefault: AttributeError.
RECURSIVE WalkNodes(_, _, _)
WalkNodes(t, segs, i) ==
    IF i > Len(segs) THEN [tree |-> t, raised |-> NoError]
    ELSE IF ~IsMapping(t, Prefix(segs, i - 1))
         THEN [tree |-> t, raised |-> "AttributeError"]
         ELSE WalkNodes(SetDefault(t, Prefix(segs, i)), segs, i + 1)

\* WriteDefaults without the `key not in current_node` test.
WriteDefaultsAlways(t, segs, configuration) ==
    LET new == {Append(segs, k) : k \in DOMAIN configuration}
    IN [q \in DOMAIN t \cup new |->
           IF q \in new THEN Scalar(configuration[q[Len(q)]]) ELSE t[q]]

\* if key not in current_node: current_node[key] = value
WriteDefaults(t, segs, configuration) ==
    LET new == {Append(segs, k) : k \in DOMAIN configuration} \ DOMAIN t
    IN [q \in DOMAIN t \cup new |->
           IF q \in new THEN Scalar(configuration[q[Len(q)]]) ELSE t[q]]

\* Lines 55-63, the merge of an entry's public attributes into the tree:
\* the walk, then the writes.  `key not in current_node` on a value that
\* sits where the leaf mapping should be is a TypeError.
merge_defaults(t, path, configuration) ==
    LET segs   == Split(path)
        walked == WalkNodes(t, segs, 1)
    IN IF walked.raised # NoError THEN walked
       ELSE IF DOMAIN configuration # {} /\ ~IsMapping(walked.tree, segs)
       THEN [tree |-> walked.tree, raised |-> "TypeError"]
       ELSE [tree |-> WriteDefaults(walked.tree, segs, configuration),
             raised |-> NoError]

\* Conflicts looking the path up in the registry's owner mapping instead.
ConflictsByOwner(used, path) == path \in DOMAIN configuration_for_module

\* if cls.__path in _registry.used_paths: raise PathConflict
Conflicts(used, path) == path \in used

\* _register_entry: the tree and the claimed paths it leaves, and its error.
register_entry(t, used, path, dict) ==
    LET merged == merge_defaults(t, path, Configuration(dict))
    IN IF Conflicts(used, path)
       THEN [tree |-> t, used |-> used, raised |-> "PathConflict"]
       ELSE IF merged.raised # NoError
       THEN [tree |-> merged.tree, used |-> used, raised |-> merged.raised]
       ELSE [tree |-> merged.tree, used |-> used \cup {path},
             raised |-> NoError]

\* DefinedAttributes without the annotations.
DefinedAttributesOfDict(dict, annotations) ==
    {n \in DOMAIN dict : ~StartsWithUnderscore(n)}

\* chain(cls.__dict__.keys(), cls.__annotations__) without the private names
DefinedAttributes(dict, annotations) ==
    {n \in DOMAIN dict \cup annotations : ~StartsWithUnderscore(n)}

\* _check_undefined_entries
check_undefined_entries(t, path, dict, annotations) ==
    IF \A n \in DefinedAttributes(dict, annotations) : Resolves(t, path, n)
    THEN NoError ELSE "ConfigurationKeyError"

\* The class object after __init__ returned or raised.  A class whose
\* definition raised is unreachable: only its finalizer, which reads its
\* path, will ever look at it, so its attributes are not kept.
EntryState(raised) ==
    CASE raised = NoError -> "live"
      [] raised = "PathConflict" -> "rejected"
      [] raised = "ConfigurationKeyError" -> "failed"
      [] OTHER -> "crashed"

PublicNamesOf(dict) == {n \in DOMAIN dict : ~StartsWithUnderscore(n)}

\* The last operation when it was an attribute read or a finalization: the
\* class object it was about, and what the read returned or raised.
Outcome(op, entry, name, r) ==
    [op |-> op, entry |-> entry, name |-> name,
     raised |-> r.raised, kind |-> r.kind, value |-> r.value]
Nothing == [raised |-> NoError, kind |-> "none", value |-> 0]
Raised(error) == [raised |-> error, kind |-> "none", value |-> 0]
NoName == <<>>
NoEntry == [state |-> "none", path |-> NoPath, dict |-> EmptyDict]
NoOutcome == Outcome("none", NoEntry, NoName, Nothing)

\* Class bodies: at most one attribute, public with any value or private,
\* and at most one annotated public name.
PublicNames == {n \in Names : ~StartsWithUnderscore(n)}
Dicts ==
    {EmptyDict} \cup UNION {[{n} -> Values] : n \in PublicNames}
                \cup {[n \in {StrPrivate} |-> CHOOSE v \in Values : TRUE]}
AnnotationSets == {{}} \cup {{n} : n \in PublicNames}

\* The class object that Define makes.
NewEntry(raised, p, dict) ==
    [state |-> EntryState(raised), path |-> p,
     dict |-> IF raised = NoError THEN dict ELSE EmptyDict]

\* What __init__ raises: the error of _register_entry, or else that of
\* _check_undefined_entries on the tree it left.
InitRaises(t, used, p, dict, annotations) ==
    LET reg == register_entry(t, used, p, dict)
    IN IF reg.raised # NoError THEN reg.raised
       ELSE check_undefined_entries(reg.tree, p, dict, annotations)

\* Define giving the path back when the validation fails.
DefineReleasing(module, path, dict, annotations) ==
    LET p   == ResolvedPath(path, module)
        reg == register_entry(global_configuration, used_paths, p, dict)
        raised == InitRaises(global_configuration, used_paths, p, dict,
                             annotations)
    IN /\ BagCardinality(entries) < NumDecls
       /\ global_configuration' = reg.tree
       /\ used_paths' = IF raised = NoError THEN reg.used ELSE used_paths
       /\ entries' = entries (+) SetToBag({NewEntry(raised, p, dict)})
       /\ outcome' = NoOutcome
       /\ UNCHANGED <<configuration_for_module, overrides, torn_down, threads>>

\* class X(ConfigEntry, path=path): <dict, annotations>, in module `module`,
\* with `entry` the class object it makes.
DefineEntry(module, path, dict, annotations, entry) ==
    LET p   == ResolvedPath(path, module)
        reg == register_entry(global_configuration, used_paths, p, dict)
    IN /\ BagCardinality(entries) < NumDecls
       /\ global_configuration' = reg.tree
       /\ used_paths' = reg.used
       /\ entries' = entries (+) SetToBag({entry})
       /\ outcome' = NoOutcome
       /\ UNCHANGED <<configuration_for_module, overrides, torn_down, threads>>

\* The class definition, the class object keeping its path and attributes.
Define(module, path, dict, annotations) ==
    LET p   == ResolvedPath(path, module)
        raised == InitRaises(global_configuration, used_paths, p, dict,
                             annotations)
    IN DefineEntry(module, path, dict, annotations, NewEntry(raised, p, dict))

\* The class object with its __annotations__ kept as well: the public names
\* that the class body annotates.
AnnotatedEntry(raised, p, dict, annotations) ==
    [state |-> EntryState(raised), path |-> p,
     dict |-> IF raised = NoError THEN dict ELSE EmptyDict,
     annotations |-> IF raised = NoError
                     THEN DefinedAttributes(EmptyDict, annotations) ELSE {}]

\* The class definition, the class object keeping its annotations too.
DefineAnnotated(module, path, dict, annotations) ==
    LET p   == ResolvedPath(path, module)
        raised == InitRaises(global_configuration, used_paths, p, dict,
                             annotations)
    IN DefineEntry(module, path, dict, annotations,
                   AnnotatedEntry(raised, p, dict, annotations))

\* Del without the call of unload_defaults.
DelWithoutUnload(e) ==
    /\ BagIn(e, entries)
    /\ entries' = entries (-) SetToBag({e})
    /\ outcome' = Outcome("del", e, NoName, Nothing)
    /\ UNCHANGED <<global_configuration, configuration_for_module,
                   used_paths, overrides, torn_down, threads>>

\* __del__: the class object e is finalized, whether it was ever registered
\* or not; it calls unload_defaults(cls.__path).
Finalize(e) ==
    /\ BagIn(e, entries)
    /\ global_configuration' =
           UnloadTree(global_configuration, overrides, e.path)
    /\ used_paths' = UnloadPaths(used_paths, e.path)
    /\ configuration_for_module' =
           [q \in DOMAIN configuration_for_module \ {e.path} |->
               configuration_for_module[q]]
    /\ entries' = entries (-) SetToBag({e})
    /\ outcome' = Outcome("del", e, NoName, Nothing)
    /\ UNCHANGED <<overrides, threads>>

Del(e) == Finalize(e) /\ UNCHANGED torn_down

\* __getattribute__ doing the normal lookup first: the class's own attribute
\* when it has one.
getattributeOwnFirst(t, entry, name) ==
    IF name \in DOMAIN entry.dict
    THEN [raised |-> NoError, kind |-> "value", value |-> entry.dict[name]]
    ELSE IF StartsWithUnderscore(name)
    THEN [raised |-> "AttributeError", kind |-> "none", value |-> 0]
    ELSE get_attribute(t, entry.path, name)

\* __getattribute__ falling back to the normal lookup when the registry has
\* no value.
getattributeWithFallback(t, entry, name) ==
    IF StartsWithUnderscore(name) \/ ~Resolves(t, entry.path, name)
    THEN IF name \in DOMAIN entry.dict
         THEN [raised |-> NoError, kind |-> "value", value |-> entry.dict[name]]
         ELSE [raised |-> "AttributeError", kind |-> "none", value |-> 0]
    ELSE get_attribute(t, entry.path, name)

\* cls.__getattribute__(name)
getattribute(t, entry, name) ==
    IF StartsWithUnderscore(name)
    THEN IF name \in DOMAIN entry.dict
         THEN [raised |-> NoError, kind |-> "value", value |-> entry.dict[name]]
         ELSE [raised |-> "AttributeError", kind |-> "none", value |-> 0]
    ELSE get_attribute(t, entry.path, name)

\* A read of attribute `name` on the live entry e.
Read(e, name) ==
    LET r == getattribute(global_configuration, e, name)
    IN /\ BagIn(e, entries)
       /\ e.state = "live"
       /\ outcome' = Outcome("read", e, name, r)
       /\ UNCHANGED <<global_configuration, configuration_for_module,
                      used_paths, entries, overrides, torn_down, threads>>

\* The loader's unconditional set of (path, name) to v.  A value where a
\* mapping is expected, or a mapping where a value is, is a
\* ConfigurationError and nothing is written.
LoaderAccepts(t, path, name) ==
    LET segs == Split(path)
    IN /\ \A i \in 1..Len(segs) :
              Has(t, Prefix(segs, i)) => IsMapping(t, Prefix(segs, i))
       /\ ~IsMapping(t, Append(segs, name))

LoaderTree(t, path, name, v) ==
    LET segs == Split(path)
        pos  == Append(segs, name)
        t1   == WalkNodes(t, segs, 1).tree
    IN [q \in DOMAIN t1 \cup {pos} |-> IF q = pos THEN Scalar(v) ELSE t1[q]]

LoaderWrite(path, name, v) ==
    LET pos == Append(Split(path), name)
    IN /\ LoaderAccepts(global_configuration, path, name)
       /\ global_configuration' = LoaderTree(global_configuration, path, name, v)
       /\ overrides' = [q \in DOMAIN overrides \cup {pos} |->
                           IF q = pos THEN v ELSE overrides[q]]
       /\ outcome' = NoOutcome
       /\ UNCHANGED <<configuration_for_module, used_paths, entries,
                      torn_down, threads>>

\* The threads that define classes, and a thread that is not defining one.
Threads == {1, 2}
Idle == [pc |-> "idle", path |-> NoPath, dict |-> EmptyDict,
         annotations |-> {}, raised |-> NoError]

\* After `import smartconfig`: the registry is empty but for ConfigEntry
\* itself, which the metaclass registered at its module's path.
Init ==
    /\ configuration_for_module = EmptyDict
    /\ global_configuration =
           register_entry([q \in {Root} |-> Mapping], {}, StrBaseModule,
                          EmptyDict).tree
    /\ used_paths =
           register_entry([q \in {Root} |-> Mapping], {}, StrBaseModule,
                          EmptyDict).used
    /\ entries = EmptyBag
    /\ overrides = EmptyDict
    /\ outcome = NoOutcome
    /\ torn_down = NoEntry
    /\ threads = [t \in Threads |-> Idle]

Next ==
    \/ \E module \in Modules, path \in PathArgs,
          dict \in Dicts, annotations \in AnnotationSets :
           Define(module, path, dict, annotations)
    \/ \E e \in BagToSet(entries) : Del(e)
    \/ \E e \in BagToSet(entries), name \in Names : Read(e, name)
    \/ \E path \in LoaderPaths, name \in LoaderNames, v \in Values :
           LoaderWrite(path, name, v)

Spec == Init /\ [][Next]_vars

\* ------------------------------------------------- the merge on its own
\* Lines 55-63 applied to the tree with any public attributes at any path,
\* between writes of the loader: the merges of several entries' defaults
\* at one path, which the conflict check keeps apart in Spec.
PublicDicts == {dict \in Dicts : DOMAIN Configuration(dict) = DOMAIN dict}

MergeDefaults(path, configuration) ==
    LET merged == merge_defaults(global_configuration, path, configuration)
    IN /\ global_configuration' = merged.tree
       /\ outcome' = Outcome("merge", [state |-> "none", path |-> path,
                                       dict |-> configuration],
                             NoName, Raised(merged.raised))
       /\ UNCHANGED <<configuration_for_module, used_paths, entries,
                      overrides, torn_down, threads>>

MergeNext ==
    \/ \E path \in LoaderPaths, configuration \in PublicDicts :
           MergeDefaults(path, configuration)
    \/ \E path \in LoaderPaths, name \in LoaderNames, v \in Values :
           LoaderWrite(path, name, v)

MergeSpec == Init /\ [][MergeNext]_vars

\* ------------------------------------------------ teardown remembered
\* Definitions, finalizations and reads with the entry that was torn down
\* last, of those that declared defaults, kept in torn_down: a live entry's
\* finalization is the teardown of its declaration.  The loader does not
\* write: no attribute is ever written by an override.
Teardown(e) ==
    /\ Finalize(e)
    /\ torn_down' = IF e.state = "live" /\ PublicNamesOf(e.dict) # {}
                     THEN e ELSE torn_down

RedeclareNext ==
    \/ \E module \in Modules, path \in PathArgs,
          dict \in Dicts, annotations \in AnnotationSets :
           Define(module, path, dict, annotations)
    \/ \E e \in BagToSet(entries) : Teardown(e)
    \/ \E e \in BagToSet(entries), name \in Names : Read(e, name)

RedeclareSpec == Init /\ [][RedeclareNext]_vars

\* ------------------------------------------------- definitions alone
\* Definitions, finalizations and reads without any write of the loader,
\* with a module path and a path below it whose last segment starts with
\* an underscore.
PrivatePathArgs == {NoPath, StrAPrivate}

DefinitionsNext ==
    \/ \E module \in Modules, path \in PrivatePathArgs,
          dict \in Dicts, annotations \in AnnotationSets :
           Define(module, path, dict, annotations)
    \/ \E e \in BagToSet(entries) : Del(e)
    \/ \E e \in BagToSet(entries), name \in Names : Read(e, name)

DefinitionsSpec == Init /\ [][DefinitionsNext]_vars

\* ------------------------------------------------- annotations kept
\* Spec with the annotations of every live class object kept in its record.
AnnotatedNext ==
    \/ \E module \in Modules, path \in PathArgs,
          dict \in Dicts, annotations \in AnnotationSets :
           DefineAnnotated(module, path, dict, annotations)
    \/ \E e \in BagToSet(entries) : Del(e)
    \/ \E e \in BagToSet(entries), name \in Names : Read(e, name)
    \/ \E path \in LoaderPaths, name \in LoaderNames, v \in Values :
           LoaderWrite(path, name, v)

AnnotatedSpec == Init /\ [][AnnotatedNext]_vars

\* ------------------------------------------------ definitions in threads
\* __init__ run by several threads with nothing to keep them apart: each
\* statement of _register_entry and the validation is a step of its own,
\* and the steps of the threads interleave.
Raise(t, error) ==
    threads' = [threads EXCEPT ![t].pc = "done", ![t].raised = error]
Goto(t, pc) == threads' = [threads EXCEPT ![t].pc = pc]

\* Line 47: the class statement is entered and the path resolved.
Start(t, module, path, dict, annotations) ==
    /\ threads[t].pc = "idle"
    /\ threads' = [threads EXCEPT ![t] =
                       [pc |-> "check", path |-> ResolvedPath(path, module),
                        dict |-> dict, annotations |-> annotations,
                        raised |-> NoError]]
    /\ UNCHANGED <<global_configuration, configuration_for_module,
                   used_paths, entries, overrides, outcome, torn_down>>

\* Lines 48-49.
CheckConflict(t) ==
    /\ threads[t].pc = "check"
    /\ IF Conflicts(used_paths, threads[t].path)
       THEN Raise(t, "PathConflict") ELSE Goto(t, "merge")
    /\ UNCHANGED <<global_configuration, configuration_for_module,
                   used_paths, entries, overrides, outcome, torn_down>>

\* Lines 51-63.
Merge(t) ==
    LET merged == merge_defaults(global_configuration, threads[t].path,
                                 Configuration(threads[t].dict))
    IN /\ threads[t].pc = "merge"
       /\ global_configuration' = merged.tree
       /\ IF merged.raised # NoError
          THEN Raise(t, merged.raised) ELSE Goto(t, "claim")
       /\ UNCHANGED <<configuration_for_module, used_paths, entries,
                      overrides, outcome, torn_down>>

\* Line 65.
Claim(t) ==
    /\ threads[t].pc = "claim"
    /\ used_paths' = used_paths \cup {threads[t].path}
    /\ Goto(t, "validate")
    /\ UNCHANGED <<global_configuration, configuration_for_module,
                   entries, overrides, outcome, torn_down>>

\* Line 90: the definition completes or raises ConfigurationKeyError.
Validate(t) ==
    /\ threads[t].pc = "validate"
    /\ Raise(t, check_undefined_entries(global_configuration,
                                        threads[t].path, threads[t].dict,
                                        threads[t].annotations))
    /\ UNCHANGED <<global_configuration, configuration_for_module,
                   used_paths, entries, overrides, outcome, torn_down>>

ConcurrentNext ==
    \/ \E t \in Threads, module \in Modules, path \in PathArgs,
          dict \in Dicts, annotations \in AnnotationSets :
           Start(t, module, path, dict, annotations)
    \/ \E t \in Threads : CheckConflict(t)
    \/ \E t \in Threads : Merge(t)
    \/ \E t \in Threads : Claim(t)
    \/ \E t \in Threads : Validate(t)

ConcurrentSpec == Init /\ [][ConcurrentNext]_vars

\* ----------------------------------------------------------- properties
\* The position of attribute `name` of the entry at `path` in the tree.
Position(path, name) == Append(Split(path), name)
\* The class objects a step creates.
Added ==
    {e \in BagToSet(entries') : CopiesIn(e, entries') > CopiesIn(e, entries)}
IsRead == outcome.op = "read" /\ ~StartsWithUnderscore(outcome.name)
ReadPosition == Position(outcome.entry.path, outcome.name)

\* C1 (under MergeSpec): a merge of the defaults {n: d} at path P that
\* completes sets (P, n) to d when (P, n) was absent before it, and leaves
\* (P, n) as it was when it was present, whoever wrote it.
C1_FillIfAbsent ==
    [][(outcome'.op = "merge" /\ outcome'.raised = NoError) =>
        \A n \in DOMAIN outcome'.entry.dict :
            LET pos == Position(outcome'.entry.path, n)
            IN /\ pos \in DOMAIN global_configuration'
               /\ IF pos \in DOMAIN global_configuration
                  THEN global_configuration'[pos] = global_configuration[pos]
                  ELSE global_configuration'[pos]
                           = Scalar(outcome'.entry.dict[n])]_vars

\* C1's case: a merge of {n: d2} has just completed and (P, n) holds another
\* value, which an earlier merge of defaults wrote.
C1_Witness ==
    /\ outcome.op = "merge" /\ outcome.raised = NoError
    /\ \E n \in DOMAIN outcome.entry.dict :
           LET pos == Position(outcome.entry.path, n)
           IN /\ IsValue(global_configuration, pos)
              /\ global_configuration[pos].value # outcome.entry.dict[n]
              /\ pos \notin DOMAIN overrides

\* C2: a definition raises PathConflict exactly when its resolved path is in
\* used_paths, and never when no class object has that path.
C2_ConflictDetection ==
    [][\A e \in Added :
          /\ e.state = "rejected" <=> e.path \in used_paths
          /\ (/\ e.path # StrBaseModule
              /\ \A f \in BagToSet(entries) : f.path # e.path)
                 => e.state # "rejected"]_vars

\* C2's case: a definition was rejected at the path of a live entry.
C2_Witness ==
    \E e, f \in BagToSet(entries) :
        e.state = "rejected" /\ f.state = "live" /\ e.path = f.path

\* C3: in every reachable state, a definition that gets past registration
\* raises ConfigurationKeyError exactly when one of its public names is
\* annotated only (no default) and has no value in the tree at its path.
C3_FailFast ==
    \A module \in Modules, path \in PathArgs, dict \in Dicts,
       annotations \in AnnotationSets :
        LET p == ResolvedPath(path, module)
            raised == InitRaises(global_configuration, used_paths, p, dict,
                                 annotations)
            unset == {x \in annotations \ DOMAIN dict :
                         /\ ~StartsWithUnderscore(x)
                         /\ Position(p, x) \notin DOMAIN global_configuration}
        IN raised \in {NoError, "ConfigurationKeyError"} =>
               (raised = "ConfigurationKeyError" <=> unset # {})

\* C3's case: a definition failed its validation.
C3_Witness ==
    \E e \in BagToSet(entries) : e.state = "failed" /\ e.path \in used_paths

\* C4: a read of a public attribute returns what the tree holds for it at
\* the entry's path at the time of the read, and so the value the loader
\* wrote last when it wrote one.
C4_LiveReads ==
    (IsRead /\ ReadPosition \in DOMAIN global_configuration) =>
        /\ outcome.raised = NoError
        /\ outcome.kind = global_configuration[ReadPosition].kind
        /\ outcome.value = global_configuration[ReadPosition].value
        /\ ReadPosition \in DOMAIN overrides
               => outcome.value = overrides[ReadPosition]

\* C4's case: a read returned a value that is not the default the class
\* body gave the attribute.
C4_Witness ==
    /\ IsRead /\ outcome.raised = NoError
    /\ outcome.name \in DOMAIN outcome.entry.dict
    /\ outcome.value # outcome.entry.dict[outcome.name]

\* C5: once the finalizer of a live entry at path P has run, P is not in
\* used_paths and a definition at P does not raise PathConflict.
C5_PathReclaim ==
    (outcome.op = "del" /\ outcome.entry.state = "live") =>
        /\ outcome.entry.path \notin used_paths
        /\ \A dict \in Dicts :
               register_entry(global_configuration, used_paths,
                              outcome.entry.path, dict).raised
                   # "PathConflict"

\* C5's case: a live entry has just been finalized.
C5_Witness ==
    /\ outcome.op = "del" /\ outcome.entry.state = "live"
    /\ outcome.entry.path \notin used_paths
    /\ \A e \in BagToSet(entries) : e.path # outcome.entry.path

\* C6: used_paths is the key set of configuration_for_module.
C6_PathsAreOwnerKeys == used_paths = DOMAIN configuration_for_module

\* C7: what the loader wrote stays in the tree whatever is defined before or
\* after the write, and a read of an attribute that has a default and that
\* the loader wrote returns the loader's value.
C7_OverridesWin ==
    /\ \A pos \in DOMAIN overrides :
           /\ pos \in DOMAIN global_configuration
           /\ global_configuration[pos] = Scalar(overrides[pos])
    /\ (/\ IsRead
        /\ outcome.name \in DOMAIN outcome.entry.dict
        /\ ReadPosition \in DOMAIN overrides)
           => /\ outcome.raised = NoError
              /\ outcome.value = overrides[ReadPosition]

\* C7's case: a read of an attribute with default d returned the value v of
\* the loader, v # d.
C7_Witness ==
    /\ IsRead
    /\ outcome.name \in DOMAIN outcome.entry.dict
    /\ ReadPosition \in DOMAIN overrides
    /\ overrides[ReadPosition] # outcome.entry.dict[outcome.name]
    /\ outcome.value = overrides[ReadPosition]

\* C8: a read of a public attribute which the tree does not hold at the
\* entry's path raises ConfigurationKeyError and returns nothing; a read
\* that returns found the attribute in the tree.
C8_MissingRaises ==
    IsRead =>
        /\ ReadPosition \notin DOMAIN global_configuration
               => /\ outcome.raised = "ConfigurationKeyError"
                  /\ outcome.kind = "none"
        /\ outcome.raised = NoError
               => ReadPosition \in DOMAIN global_configuration

\* C8's case: a read raised ConfigurationKeyError for an attribute that the
\* class body gave a default.
C8_Witness ==
    /\ IsRead /\ outcome.raised = "ConfigurationKeyError"
    /\ outcome.name \in DOMAIN outcome.entry.dict

\* C9: the finalizer of a live entry at path P changes no value of the tree
\* and adds none, and deletes only values at P that the entry declared and
\* that the loader did not write.
C9_TeardownFrame ==
    [][(outcome'.op = "del" /\ outcome'.entry.state = "live") =>
        LET e == outcome'.entry
            own == {Position(e.path, n) : n \in PublicNamesOf(e.dict)}
        IN /\ DOMAIN global_configuration' \subseteq DOMAIN global_configuration
           /\ \A pos \in DOMAIN global_configuration' :
                  global_configuration'[pos] = global_configuration[pos]
           /\ \A pos \in DOMAIN global_configuration
                         \ DOMAIN global_configuration' :
                  pos \in own /\ pos \notin DOMAIN overrides]_vars

\* C10: a definition that fails its validation leaves its path in
\* used_paths, where a definition at that path raises PathConflict.
C10_FailedKeepsPath ==
    [][\A e \in Added : e.state = "failed" =>
          /\ e.path \in used_paths'
          /\ \A dict \in Dicts :
                 register_entry(global_configuration', used_paths', e.path,
                                dict).raised = "PathConflict"]_vars

\* C10's case: after a failed definition at P, a definition at P was
\* rejected.
C10_Witness ==
    \E e, f \in BagToSet(entries) :
        /\ e.state = "failed" /\ f.state = "rejected" /\ e.path = f.path
        /\ e.path \in used_paths

\* The paths of the class objects that claimed theirs (line 65 was reached)
\* and are not finalized yet.
OwnedPaths ==
    {e.path : e \in {f \in BagToSet(entries) : f.state \in {"live", "failed"}}}

\* C11: a path other than ConfigEntry's own is in used_paths exactly while a
\* class object that claimed it is not finalized; a definition that raises
\* PathConflict changes neither the tree nor used_paths, and neither does the
\* finalizer of the class object it leaves behind.
C11_OwnerHoldsPath ==
    /\ [](used_paths \ {StrBaseModule} = OwnedPaths)
    /\ [][/\ \A e \in Added : e.state = "rejected" =>
                 /\ global_configuration' = global_configuration
                 /\ used_paths' = used_paths
          /\ (outcome'.op = "del" /\ outcome'.entry.state = "rejected") =>
                 /\ global_configuration' = global_configuration
                 /\ used_paths' = used_paths]_vars

\* segs is a proper prefix of the key sequence pos.
IsProperPrefix(segs, pos) ==
    Len(segs) < Len(pos) /\ Prefix(pos, Len(segs)) = segs

\* C12: the node at the end of every path in used_paths exists in the tree,
\* and the finalizer of an entry at path P leaves the node of every live
\* entry at a path below P in place, with every attribute that resolved there
\* resolving to the same value.
C12_NoOrphans ==
    /\ [](\A path \in used_paths : Has(global_configuration, Split(path)))
    /\ [][outcome'.op = "del" =>
            \A f \in BagToSet(entries') :
                (/\ f.state = "live"
                 /\ IsProperPrefix(Split(outcome'.entry.path), Split(f.path)))
                => /\ Has(global_configuration', Split(f.path))
                   /\ \A n \in Names :
                          Resolves(global_configuration, f.path, n) =>
                              get_attribute(global_configuration', f.path, n)
                                  = get_attribute(global_configuration,
                                                  f.path, n)]_vars

\* What a read returns when it returns the value v.
Returned(v) == [raised |-> NoError, kind |-> "value", value |-> v]

\* The names n to which a step that defines the entry e applies as a
\* redeclaration: the declaration torn down last was at e's path and gave n a
\* default, e gives n a default, and the loader never wrote (path, n).
Redeclared(e) ==
    {n \in PublicNamesOf(e.dict) \cap PublicNamesOf(torn_down.dict) :
        /\ e.state = "live"
        /\ e.path = torn_down.path
        /\ Position(e.path, n) \notin DOMAIN overrides'}

\* C13 as stated (under RedeclareSpec): when the declaration torn down last
\* was at P with a default for n, the loader never wrote (P, n), and a new
\* declaration at P with default {n: d2} is defined, a read of n on it
\* returns d2.
C13_CleanRedeclaration ==
    [][\A e \in Added : \A n \in Redeclared(e) :
          getattribute(global_configuration', e, n) = Returned(e.dict[n])]_vars

\* C13 amended (under RedeclareSpec): the same, when (P, n) is not a nested
\* node of the tree at the time of the new definition.
C13_CleanRedeclarationOfValues ==
    [][\A e \in Added : \A n \in Redeclared(e) :
          ~IsMapping(global_configuration, Position(e.path, n)) =>
              getattribute(global_configuration', e, n)
                  = Returned(e.dict[n])]_vars

\* C13's case: a read of n on an entry at the path of the declaration torn
\* down last, which gave n another default, returned the entry's default.
C13_Witness ==
    /\ IsRead /\ outcome.raised = NoError
    /\ outcome.entry.path = torn_down.path
    /\ outcome.name \in DOMAIN outcome.entry.dict
    /\ outcome.name \in DOMAIN torn_down.dict
    /\ torn_down.dict[outcome.name] # outcome.entry.dict[outcome.name]
    /\ ReadPosition \notin DOMAIN overrides
    /\ outcome.value = outcome.entry.dict[outcome.name]

\* The paths at which a definition or the loader looks attributes up.
KnownPaths == LoaderPaths \cup {ResolvedPath(path, module) :
                                   path \in PathArgs, module \in Modules}

\* C14: a definition, whether it completes or raises, leaves every position
\* of the tree in place with what it held, nested nodes and values alike, and
\* every attribute that resolved at a path resolves to the same value.
C14_DefinePreserves ==
    [][Added # {} =>
          /\ \A pos \in DOMAIN global_configuration :
                 /\ pos \in DOMAIN global_configuration'
                 /\ global_configuration'[pos] = global_configuration[pos]
          /\ \A path \in KnownPaths, n \in Names :
                 Resolves(global_configuration, path, n) =>
                     get_attribute(global_configuration', path, n)
                         = get_attribute(global_configuration, path, n)]_vars

\* C14's case: a definition whose path ends on the attribute value stored
\* under that segment's name at the prefix path raised, and the value is in
\* place, beside a live entry at the prefix path.
C14_Witness ==
    \E e, f \in BagToSet(entries) :
        /\ e.state = "crashed" /\ f.state = "live"
        /\ IsValue(global_configuration, Split(e.path))
        /\ Split(e.path) \in {Position(f.path, n) : n \in PublicNamesOf(f.dict)}

\* The keys of the leaf mapping of path that start with an underscore, as
\* positions of the tree.
PrivateKeys(t, path) ==
    {pos \in DOMAIN t : /\ Len(pos) = Len(Split(path)) + 1
                        /\ Prefix(pos, Len(Split(path))) = Split(path)
                        /\ StartsWithUnderscore(pos[Len(pos)])}

\* A read of a private name gave the class's own attribute, or AttributeError
\* when the class has none, whatever the tree holds.
PrivateReadsOwn ==
    (outcome.op = "read" /\ StartsWithUnderscore(outcome.name)) =>
        IF outcome.name \in DOMAIN outcome.entry.dict
        THEN /\ outcome.raised = NoError
             /\ outcome.value = outcome.entry.dict[outcome.name]
        ELSE outcome.raised = "AttributeError"

\* C15 as stated (under DefinitionsSpec): the leaf mapping of no claimed path
\* has a key that starts with an underscore, and a read of a private name
\* gives the class's own attribute.
C15_PrivateStaysOut ==
    /\ \A path \in used_paths : PrivateKeys(global_configuration, path) = {}
    /\ PrivateReadsOwn

\* C15 amended (under DefinitionsSpec): the leaf mapping of no claimed path
\* holds a value under a key that starts with an underscore, such a key
\* being the segment of a path below it; and a read of a private name gives
\* the class's own attribute.
C15_PrivateValuesStayOut ==
    /\ \A path \in used_paths :
           \A pos \in PrivateKeys(global_configuration, path) :
               IsMapping(global_configuration, pos)
    /\ PrivateReadsOwn

\* C15's case: a read of a private name returned the class's attribute while
\* the leaf mapping of the class's path has a key of that name.
C15_Witness ==
    /\ outcome.op = "read" /\ StartsWithUnderscore(outcome.name)
    /\ outcome.name \in DOMAIN outcome.entry.dict
    /\ outcome.raised = NoError
    /\ outcome.value = outcome.entry.dict[outcome.name]
    /\ Has(global_configuration, Position(outcome.entry.path, outcome.name))

\* C16 (under AnnotatedSpec): every public name that a live entry declares
\* or annotates resolves at the entry's path.
C16_LiveStaysResolvable ==
    \A e \in BagToSet(entries) :
        e.state = "live" =>
            \A n \in PublicNamesOf(e.dict) \cup e.annotations :
                Resolves(global_configuration, e.path, n)

\* C17 (under ConcurrentSpec): of two definitions at one path that have both
\* ended, at most one has completed, and unless one of them broke off in the
\* merge one of them has raised PathConflict.
C17_ExclusiveOwnership ==
    \A t, u \in Threads :
        (/\ t # u
         /\ threads[t].pc = "done" /\ threads[u].pc = "done"
         /\ threads[t].path = threads[u].path)
        => /\ ~(threads[t].raised = NoError /\ threads[u].raised = NoError)
           /\ {threads[t].raised, threads[u].raised}
                  \subseteq {NoError, "ConfigurationKeyError", "PathConflict"}
              => "PathConflict" \in {threads[t].raised, threads[u].raised}

====
